---------------------------- MODULE Spec2Model ----------------------------
(***************************************************************************)
(* Node server of the SMB CSI driver (pkg/smb/nodeserver.go): the stage,   *)
(* unstage, publish and unpublish handlers, the mount-point prober         *)
(* ensureMountPoint, and the per-volume Kerberos ticket cache.             *)
(*                                                                         *)
(* Strings are sequences of ASCII codes, so that prefix tests, Atoi, %d    *)
(* formatting, ToLower and base64 are computed the way the Go code         *)
(* computes them.                                                          *)
(***************************************************************************)
EXTENDS Integers, Sequences, FiniteSets, TLC

(***************************************************************************)
(* Strings (package strings, strconv, fmt, encoding/base64)                *)
(***************************************************************************)

\* strings.HasPrefix
HasPrefix(s, p) ==
    /\ Len(p) <= Len(s)
    /\ \A i \in 1..Len(p) : s[i] = p[i]

\* strings.TrimPrefix
TrimPrefix(s, p) ==
    IF HasPrefix(s, p) THEN SubSeq(s, Len(p) + 1, Len(s)) ELSE s

\* strings.ToLower on ASCII text
ToLower(s) ==
    [i \in 1..Len(s) |-> IF s[i] >= 65 /\ s[i] <= 90 THEN s[i] + 32 ELSE s[i]]

\* strings.ReplaceAll(s, old, new) for one-character old and new
ReplaceAll(s, old, new) ==
    [i \in 1..Len(s) |-> IF s[i] = old THEN new ELSE s[i]]

RECURSIVE TrimRight(_, _)
\* strings.TrimRight with a one-character cutset
TrimRight(s, ch) ==
    IF Len(s) > 0 /\ s[Len(s)] = ch THEN TrimRight(SubSeq(s, 1, Len(s) - 1), ch)
    ELSE s

RECURSIVE TrimSpace(_)
\* strings.TrimSpace: leading and trailing blanks, tabs and line ends go
TrimSpace(s) ==
    LET space == {9, 10, 11, 12, 13, 32}
    IN  IF Len(s) > 0 /\ s[1] \in space THEN TrimSpace(Tail(s))
        ELSE IF Len(s) > 0 /\ s[Len(s)] \in space
        THEN TrimSpace(SubSeq(s, 1, Len(s) - 1))
        ELSE s

IsDigit(ch) == ch >= 48 /\ ch <= 57

RECURSIVE DigitsValue(_)
DigitsValue(s) ==
    IF Len(s) = 0 THEN 0
    ELSE 10 * DigitsValue(SubSeq(s, 1, Len(s) - 1)) + (s[Len(s)] - 48)

\* strconv.Atoi: an optional sign, then one or more decimal digits
Atoi(s) ==
    LET signed == Len(s) > 0 /\ s[1] \in {43, 45}
        digits == IF signed THEN Tail(s) ELSE s
    IN  IF Len(digits) = 0 \/ \E i \in 1..Len(digits) : ~IsDigit(digits[i])
        THEN [ok |-> FALSE, val |-> 0]
        ELSE [ok |-> TRUE,
              val |-> IF signed /\ s[1] = 45 THEN 0 - DigitsValue(digits)
                      ELSE DigitsValue(digits)]

RECURSIVE NatToDigits(_)
NatToDigits(n) ==
    IF n < 10 THEN <<48 + n>>
    ELSE Append(NatToDigits(n \div 10), 48 + (n % 10))

\* fmt verb %d
Itoa(n) == IF n < 0 THEN <<45>> \o NatToDigits(0 - n) ELSE NatToDigits(n)

\* the alphabet of base64.StdEncoding
B64Char(i) ==
    IF i < 26 THEN 65 + i
    ELSE IF i < 52 THEN 97 + (i - 26)
    ELSE IF i < 62 THEN 48 + (i - 52)
    ELSE IF i = 62 THEN 43 ELSE 47

B64Pad == 61

RECURSIVE B64Encode(_)
\* base64.StdEncoding.EncodeToString
B64Encode(b) ==
    IF Len(b) = 0 THEN <<>>
    ELSE IF Len(b) = 1 THEN
        <<B64Char(b[1] \div 4), B64Char((b[1] % 4) * 16), B64Pad, B64Pad>>
    ELSE IF Len(b) = 2 THEN
        <<B64Char(b[1] \div 4), B64Char((b[1] % 4) * 16 + b[2] \div 16),
          B64Char((b[2] % 16) * 4), B64Pad>>
    ELSE
        <<B64Char(b[1] \div 4), B64Char((b[1] % 4) * 16 + b[2] \div 16),
          B64Char((b[2] % 16) * 4 + b[3] \div 64), B64Char(b[3] % 64)>>
        \o B64Encode(SubSeq(b, 4, Len(b)))

B64Value(ch) ==
    IF ch >= 65 /\ ch <= 90 THEN ch - 65
    ELSE IF ch >= 97 /\ ch <= 122 THEN ch - 97 + 26
    ELSE IF IsDigit(ch) THEN ch - 48 + 52
    ELSE IF ch = 43 THEN 62
    ELSE IF ch = 47 THEN 63 ELSE 0 - 1

RECURSIVE B64Decode(_)
\* base64.StdEncoding.DecodeString: padded quads; padding only ends the input
B64Decode(s) ==
    IF Len(s) = 0 THEN [ok |-> TRUE, bytes |-> <<>>]
    ELSE IF Len(s) < 4 THEN [ok |-> FALSE, bytes |-> <<>>]
    ELSE
        LET v1 == B64Value(s[1])
            v2 == B64Value(s[2])
            v3 == B64Value(s[3])
            v4 == B64Value(s[4])
            last == Len(s) = 4
            rest == B64Decode(SubSeq(s, 5, Len(s)))
        IN  IF v1 < 0 \/ v2 < 0 THEN [ok |-> FALSE, bytes |-> <<>>]
            ELSE IF s[3] = B64Pad THEN
                IF last /\ s[4] = B64Pad
                THEN [ok |-> TRUE, bytes |-> <<v1 * 4 + v2 \div 16>>]
                ELSE [ok |-> FALSE, bytes |-> <<>>]
            ELSE IF v3 < 0 THEN [ok |-> FALSE, bytes |-> <<>>]
            ELSE IF s[4] = B64Pad THEN
                IF last
                THEN [ok |-> TRUE,
                      bytes |-> <<v1 * 4 + v2 \div 16,
                                  (v2 % 16) * 16 + v3 \div 4>>]
                ELSE [ok |-> FALSE, bytes |-> <<>>]
            ELSE IF v4 < 0 \/ ~rest.ok THEN [ok |-> FALSE, bytes |-> <<>>]
            ELSE [ok |-> TRUE,
                  bytes |-> <<v1 * 4 + v2 \div 16,
                              (v2 % 16) * 16 + v3 \div 4,
                              (v3 % 4) * 64 + v4>> \o rest.bytes]


(***************************************************************************)
(* Program constants and the requests the model draws from                 *)
(***************************************************************************)

\* runtime.GOOS of the build under test (the Linux unit-test workflow)
GOOS == "linux"

\* "krb5cc_"
krb5Prefix == <<107, 114, 98, 53, 99, 99, 95>>

\* "/var/lib/kubelet/kerberos/"
krb5CacheDirectory ==
    <<47, 118, 97, 114, 47, 108, 105, 98, 47, 107, 117, 98, 101, 108, 101,
      116, 47, 107, 101, 114, 98, 101, 114, 111, 115, 47>>

\* "sec=krb5"
secKrb5Prefix == <<115, 101, 99, 61, 107, 114, 98, 53>>

\* "cruid="
cruidPrefix == <<99, 114, 117, 105, 100, 61>>

\* "subdir"
subDirField == <<115, 117, 98, 100, 105, 114>>

\* "source", "username", "password"
sourceField == <<115, 111, 117, 114, 99, 101>>
usernameField == <<117, 115, 101, 114, 110, 97, 109, 101>>
passwordField == <<112, 97, 115, 115, 119, 111, 114, 100>>

\* the 2-minute outer bound of the stage polling loop, in minutes
PollTimeout == 2

\* volume ids "v1" and "v2?" (the second one's base64 form ends in "/")
VolumeIDs == {<<118, 49>>, <<118, 50, 63>>}

StagingPath(v) == IF v = <<118, 49>> THEN "/staging/v1" ELSE "/staging/v2"
TargetPath(v) == IF v = <<118, 49>> THEN "/pod/v1" ELSE "/pod/v2"

\* the volumes that publish and unpublish requests name
PublishedVolumes == {<<118, 49>>}

StagingPaths == {StagingPath(v) : v \in VolumeIDs}
TargetPaths == {TargetPath(v) : v \in PublishedVolumes}
Paths == StagingPaths \cup TargetPaths

\* "//s/a": the share every request mounts
ShareSource == <<47, 47, 115, 47, 97>>

\* mount flags "sec=krb5" and "cruid=1"
FlagSecKrb5 == secKrb5Prefix
FlagCruid1 == cruidPrefix \o <<49>>

\* the ticket secret of a volume: key "KRB5CC_1", value base64 of the ticket
TicketOf(v) == IF v = <<118, 49>> THEN <<7, 1>> ELSE <<7, 2>>
KrbSecrets(v) ==
    {<<<<75, 82, 66, 53, 67, 67, 95, 49>>, B64Encode(TicketOf(v))>>}

\* mount flag "guest"
FlagGuest == <<103, 117, 101, 115, 116>>

\* username "u", password "p " (the handler trims it)
PasswordSecrets == {<<usernameField, <<117>>>>, <<passwordField, <<112, 32>>>>}

Workers == {"w1", "w2"}

\* the server takes this many requests in a run
MaxRequests == 3

(***************************************************************************)
(* Kerberos cache names (nodeserver.go, lines 436-498)                     *)
(***************************************************************************)

hasKerberosMountOption(mountFlags) ==
    \E i \in 1..Len(mountFlags) : HasPrefix(mountFlags[i], secKrb5Prefix)

\* the first cruid= flag decides; [ok, val]
getCredUID(mountFlags) ==
    LET hits == {i \in 1..Len(mountFlags) : HasPrefix(mountFlags[i], cruidPrefix)}
    IN  IF hits = {} THEN [ok |-> FALSE, val |-> 0 - 1]
        ELSE LET first == CHOOSE i \in hits : \A j \in hits : i <= j
             IN  Atoi(TrimPrefix(mountFlags[first], cruidPrefix))

getKrb5CcacheName(credUID) == krb5Prefix \o Itoa(credUID)

getKerberosFilePath(fileName) == krb5CacheDirectory \o fileName

volumeKerberosCacheName(volumeID) ==
    ReplaceAll(ReplaceAll(B64Encode(volumeID), 47, 45), 43, 95)

\* the values a secrets map holds under a key that lower-cases to name
SecretValues(secrets, name) ==
    {kv[2] : kv \in {e \in secrets : ToLower(e[1]) = name}}

\* getKerberosCache for one candidate value of the secret: [ok, name, content]
getKerberosCache_NoDecodeCheck(credUID, krb5CcacheContent) ==
    [ok |-> krb5CcacheContent # <<>>,
     name |-> getKerberosFilePath(getKrb5CcacheName(credUID)),
     content |-> B64Decode(krb5CcacheContent).bytes]

getKerberosCache(credUID, krb5CcacheContent) ==
    LET decoded == B64Decode(krb5CcacheContent)
    IN  IF krb5CcacheContent = <<>> \/ ~decoded.ok
        THEN [ok |-> FALSE, name |-> <<>>, content |-> <<>>]
        ELSE [ok |-> TRUE,
              name |-> getKerberosFilePath(getKrb5CcacheName(credUID)),
              content |-> decoded.bytes]

(***************************************************************************)
(* State                                                                   *)
(***************************************************************************)

VARIABLES
    volumeLocks,      \* d.volumeLocks: the volume ids whose lock is held
    fs,               \* each path: directory present?, what is mounted on it
    krb5Dir,          \* entries of krb5CacheDirectory, by file name
    cacheDirExists,   \* whether krb5CacheDirectory exists on this node
    pc,               \* each worker's position in the handler it runs
    req,              \* each worker's request
    loc,              \* each worker's local variables
    res,              \* each worker's response, once its handler has returned
    served            \* how many requests the server has taken so far

vars == <<volumeLocks, fs, krb5Dir, cacheDirExists, pc, req, loc, res, served>>

NoMount == [exists |-> FALSE, mount |-> "none"]
PlainDir == [exists |-> TRUE, mount |-> "none"]

\* How the server behind a mount answers when a handler looks at the path:
\* "ok"; "stale", stat fails with a corruption errno; "unlistable", stat
\* works and listing the directory fails.  It may change at any time, so
\* each look draws it anew.
Healths == {"ok", "stale", "unlistable"}

\* a path as a handler sees it
Seen(st, health) ==
    [exists |-> st.exists, mount |-> st.mount,
     health |-> IF st.mount = "none" THEN "ok" ELSE health]

NoRequest ==
    [op |-> "none", volumeID |-> <<>>, capability |-> FALSE, path |-> "",
     staging |-> "", context |-> {}, mountFlags |-> <<>>, secrets |-> {}]

\* what a handler's probe saw and did: the path as seen, the failing call
\* if any, the primary check's error, the recovery unmount, the pair returned
NoProbe ==
    [ran |-> FALSE, saw |-> [exists |-> FALSE, mount |-> "none", health |-> "ok"],
     fault |-> "none", primary |-> "nil", unmountTried |-> FALSE,
     unmounted |-> FALSE, mnt |-> FALSE, err |-> "nil"]

NoLocals ==
    [useKerberosCache |-> FALSE, credUID |-> 0, content |-> <<>>,
     krb5CacheFileName |-> <<>>, dirEntries |-> <<>>, probe |-> NoProbe,
     mountCalls |-> 0, unmountCalls |-> 0, mountComplete |-> FALSE,
     mountErr |-> "nil", elapsed |-> 0, removed |-> <<>>, faulted |-> FALSE,
     mountSource |-> <<>>, sensitiveMountOptions |-> <<>>]

NoResult == [code |-> "none", why |-> "none"]

Result(code, why) == [code |-> code, why |-> why]

(***************************************************************************)
(* The volume lock table (d.volumeLocks)                                   *)
(***************************************************************************)

\* TryAcquire(volumeID): true iff this call obtained the lock
TryAcquire(volumeID) == volumeID \notin volumeLocks

LocksAfterAcquire(volumeID) == volumeLocks \cup {volumeID}

\* Release(volumeID)
LocksAfterRelease(volumeID) == volumeLocks \ {volumeID}

(***************************************************************************)
(* The mounter and the file system under a path                            *)
(***************************************************************************)

IsMounted(st) == st.mount # "none"

\* os.Stat of a path: a stale mount answers with a corruption errno
StatOf(st) ==
    IF IsMounted(st) /\ st.health = "stale" THEN "corrupt"
    ELSE IF ~st.exists THEN "ENOENT" ELSE "nil"

\* mounter.IsLikelyNotMountPoint: the stat error if any, else whether the
\* device differs from the parent's, which a bind mount does not show
IsLikelyNotMountPoint(st, statFault) ==
    IF StatOf(st) # "nil" THEN [notMnt |-> TRUE, err |-> StatOf(st)]
    ELSE IF statFault THEN [notMnt |-> TRUE, err |-> "stat"]
    ELSE [notMnt |-> st.mount # "cifs", err |-> "nil"]

\* IsCorruptedDir: the path's stat fails with a corruption errno
IsCorruptedDir(st) == StatOf(st) = "corrupt"

\* os.ReadDir of a mount point succeeds on a healthy mount only
ReadDirOk(st) == st.exists /\ (IsMounted(st) => st.health = "ok")

\* os.MkdirAll: fails on a path whose stat is corrupt (mkdir says EEXIST and
\* the following Lstat fails), and on an I/O fault
MkdirAllOk(st, fault) == ~fault /\ StatOf(st) # "corrupt"

AfterMkdirAll(st) ==
    [exists |-> TRUE, mount |-> st.mount, health |-> st.health]

AfterUnmount(st) == [exists |-> st.exists, mount |-> "none", health |-> "ok"]

AfterMount(kind) == [exists |-> TRUE, mount |-> kind]

\* what stays of a path once the handler has looked
Stored(st) == [exists |-> st.exists, mount |-> st.mount]

\* os.MkdirAll inside makeDir: its error, "nil" if none.  On a name that
\* Stat reports absent and that something other than a directory holds (a
\* dangling symlink), Mkdir says EEXIST, Lstat finds no directory and
\* MkdirAll returns the EEXIST; fault "mkdir exists" is that case.
MkdirAllErr(st, fault) ==
    IF fault = "mkdir exists" /\ StatOf(st) = "ENOENT" THEN "EEXIST"
    ELSE IF MkdirAllOk(st, fault = "mkdir") THEN "nil"
    ELSE "mkdir"

\* makeDir, lines 417-425: an error that os.IsExist accepts is no error.
\* [err, st]: what makeDir returns and the path afterwards
makeDir(st, fault) ==
    LET err == MkdirAllErr(st, fault)
    IN  [err |-> IF err \notin {"nil", "EEXIST"} THEN err ELSE "nil",
         st |-> IF err = "nil" THEN AfterMkdirAll(st) ELSE st]

(***************************************************************************)
(* ensureMountPoint (nodeserver.go, lines 360-415).  fault names the call  *)
(* that fails in this run, if any: "stat" (the primary check fails         *)
(* otherwise than by corruption or absence), "list" (mounter.List),        *)
(* "unmount", "mkdir", "mkdir exists" (MkdirAll says the name is taken).   *)
(* Each failure ends the probe, so one is enough.                          *)
(* The result is the pair (mnt, err), the path's new state and what the    *)
(* probe did.                                                              *)
(***************************************************************************)

ProbeResult(primary, tried, unmounted, mnt, err, st) ==
    [ran |-> TRUE, primary |-> primary, unmountTried |-> tried,
     unmounted |-> unmounted, mnt |-> mnt, err |-> err, st |-> st]

\* line 406 returns the err in scope there: the one ReadDir gave at line 394
RecoverStaleErr(readErr) == readErr

\* lines 384-389: a mount-table entry for the path corrects the verdict
MountTableVerdict_Skipped(st, notMnt) == notMnt

MountTableVerdict(st, notMnt) == IF IsMounted(st) THEN FALSE ELSE notMnt

ensureMountPoint(st, fault) ==
    LET first == IsLikelyNotMountPoint(st, fault = "stat")
        hardErr == first.err \notin {"nil", "ENOENT"} /\ ~IsCorruptedDir(st)
        notMnt1 == IF first.err \notin {"nil", "ENOENT"} /\ IsCorruptedDir(st)
                   THEN FALSE ELSE first.notMnt
        notMnt2 == IF GOOS # "windows" THEN MountTableVerdict(st, notMnt1)
                   ELSE notMnt1
    IN  IF hardErr
        THEN ProbeResult(first.err, FALSE, FALSE, ~first.notMnt, first.err, st)
        ELSE IF GOOS # "windows" /\ fault = "list"
        THEN ProbeResult(first.err, FALSE, FALSE, ~notMnt1, "list", st)
        ELSE IF ~notMnt2
        THEN IF ReadDirOk(st)
             THEN ProbeResult(first.err, FALSE, FALSE, TRUE, "nil", st)
             ELSE IF fault = "unmount" \/ ~IsMounted(st)
             THEN ProbeResult(first.err, TRUE, FALSE, TRUE, "unmount", st)
             ELSE ProbeResult(first.err, TRUE, TRUE, FALSE,
                              RecoverStaleErr("readdir"), AfterUnmount(st))
        ELSE IF makeDir(st, fault).err # "nil"
        THEN ProbeResult(first.err, FALSE, FALSE, FALSE, makeDir(st, fault).err, st)
        ELSE ProbeResult(first.err, FALSE, FALSE, FALSE, "nil", makeDir(st, fault).st)

ProbeFaults == {"none", "stat", "list", "unmount", "mkdir", "mkdir exists"}

\* lines 65-72, 209-214: what both callers do with the pair (mnt, err)
AfterEnsureMountPoint(mnt, err) ==
    IF err # "nil" THEN "Internal" ELSE IF mnt THEN "mounted" ELSE "mount"

\* what a handler keeps of the probe of a path seen as saw; the fault is
\* kept if the probe reached the call that was to fail
ProbeOf(r, saw, fault) ==
    [ran |-> r.ran, saw |-> saw,
     fault |-> IF fault \in {r.primary, r.err} THEN fault ELSE "none",
     primary |-> r.primary,
     unmountTried |-> r.unmountTried, unmounted |-> r.unmounted,
     mnt |-> r.mnt, err |-> r.err]

\* CleanupMountPoint / CleanupSMBMountPoint: an absent path is fine; a mount
\* on the path is unmounted, then the directory is removed.  [ok, st, unmounts]
CleanupMountPoint(st, unmountFault, removeFault) ==
    IF ~st.exists /\ ~IsMounted(st) THEN [ok |-> TRUE, st |-> st, unmounts |-> 0]
    ELSE IF IsMounted(st) /\ unmountFault
    THEN [ok |-> FALSE, st |-> st, unmounts |-> 1]
    ELSE IF removeFault
    THEN [ok |-> FALSE, st |-> [exists |-> st.exists, mount |-> "none"],
          unmounts |-> IF IsMounted(st) THEN 1 ELSE 0]
    ELSE [ok |-> TRUE, st |-> NoMount, unmounts |-> IF IsMounted(st) THEN 1 ELSE 0]

(***************************************************************************)
(* The Kerberos cache directory                                            *)
(***************************************************************************)

FileEntry(content, owner) ==
    [kind |-> "file", content |-> content, owner |-> owner, target |-> <<>>]

\* the cache kept under the canonical name itself instead of a link to it
LinkEntry_RegularFile(target) ==
    [kind |-> "file", content |-> target, owner |-> 0, target |-> <<>>]

LinkEntry(target) ==
    [kind |-> "symlink", content |-> <<>>, owner |-> 0, target |-> target]

InCacheDir(path) == HasPrefix(path, krb5CacheDirectory)

BaseName(path) == TrimPrefix(path, krb5CacheDirectory)

DirPut(dir, name, entry) ==
    [n \in DOMAIN dir \cup {name} |-> IF n = name THEN entry ELSE dir[n]]

DirDel(dir, name) == [n \in DOMAIN dir \ {name} |-> dir[n]]

RECURSIVE Resolve(_, _, _)
\* the name a path leads to after following symlinks, or <<>> if it leads
\* nowhere (the link's target is gone, or the links loop)
Resolve(dir, path, fuel) ==
    IF ~InCacheDir(path) \/ BaseName(path) \notin DOMAIN dir \/ fuel = 0
    THEN <<>>
    ELSE IF dir[BaseName(path)].kind = "symlink"
    THEN Resolve(dir, dir[BaseName(path)].target, fuel - 1)
    ELSE BaseName(path)

\* os.Stat: follows symlinks, so a dangling link "does not exist"
StatExists(dir, path) == Resolve(dir, path, Cardinality(DOMAIN dir) + 1) # <<>>

\* os.Lstat: the entry itself
LstatExists(dir, path) == InCacheDir(path) /\ BaseName(path) \in DOMAIN dir

\* os.Readlink: the target of a symlink, "" for anything else
Readlink(dir, path) ==
    IF LstatExists(dir, path) /\ dir[BaseName(path)].kind = "symlink"
    THEN dir[BaseName(path)].target ELSE <<>>

\* os.WriteFile: creates the file, or truncates what the path leads to
WriteFile(dir, path, content) ==
    LET through == Resolve(dir, path, Cardinality(DOMAIN dir) + 1)
        name == IF through # <<>> THEN through
                ELSE IF LstatExists(dir, path) THEN BaseName(Readlink(dir, path))
                ELSE BaseName(path)
        owner == IF name \in DOMAIN dir THEN dir[name].owner ELSE 0
    IN  DirPut(dir, name, FileEntry(content, owner))

\* os.Chown
Chown(dir, path, uid) ==
    LET name == Resolve(dir, path, Cardinality(DOMAIN dir) + 1)
    IN  IF name = <<>> THEN dir
        ELSE [dir EXCEPT ![name] = FileEntry(dir[name].content, uid)]

RECURSIVE LexLess(_, _)
LexLess(a, b) ==
    IF Len(a) = 0 THEN Len(b) > 0
    ELSE IF Len(b) = 0 THEN FALSE
    ELSE IF a[1] # b[1] THEN a[1] < b[1]
    ELSE LexLess(Tail(a), Tail(b))

RECURSIVE SortNames(_)
\* os.ReadDir: the entries sorted by file name
SortNames(names) ==
    IF names = {} THEN <<>>
    ELSE LET least == CHOOSE n \in names : \A m \in names \ {n} : LexLess(n, m)
         IN  <<least>> \o SortNames(names \ {least})

VolumeCachePath(volumeID) == getKerberosFilePath(volumeKerberosCacheName(volumeID))

(***************************************************************************)
(* Requests                                                                *)
(***************************************************************************)

\* context key "Source": the handler matches keys case-insensitively
SourceContext == {<<<<83, 111, 117, 114, 99, 101>>, ShareSource>>}

StageRequest(v, flags, secrets, context) ==
    [op |-> "stage", volumeID |-> v, capability |-> TRUE,
     path |-> StagingPath(v), staging |-> "", context |-> context,
     mountFlags |-> flags, secrets |-> secrets]

\* stage requests that lack a field: the volume id, the capability, the
\* staging path, the context's source
InvalidStageRequests ==
    LET good == StageRequest(<<118, 49>>, <<>>, PasswordSecrets, SourceContext)
    IN  {[good EXCEPT !.volumeID = <<>>], [good EXCEPT !.capability = FALSE],
         [good EXCEPT !.path = ""], [good EXCEPT !.context = {}]}

StageRequests ==
    {StageRequest(v, <<>>, PasswordSecrets, SourceContext) : v \in VolumeIDs}
    \cup {StageRequest(v, <<FlagSecKrb5, FlagCruid1>>, KrbSecrets(v), SourceContext) :
            v \in VolumeIDs}
    \cup InvalidStageRequests

\* context keys "Source" and "subDir": a stage of "//s/a/" with subDir "d"
SubDirContext ==
    {<<<<83, 111, 117, 114, 99, 101>>, ShareSource \o <<47>>>>,
     <<<<115, 117, 98, 68, 105, 114>>, <<100>>>>}

\* Kerberos stage requests that cannot be served: no cruid= flag, no
\* krb5cc_1 secret, a krb5cc_1 secret "!" that is not base64
InvalidKerberosRequests ==
    {StageRequest(<<118, 49>>, <<FlagSecKrb5>>, KrbSecrets(<<118, 49>>), SourceContext),
     StageRequest(<<118, 49>>, <<FlagSecKrb5, FlagCruid1>>, PasswordSecrets, SourceContext),
     StageRequest(<<118, 49>>, <<FlagSecKrb5, FlagCruid1>>,
                  {<<<<75, 82, 66, 53, 67, 67, 95, 49>>, <<33>>>>}, SourceContext)}

\* the stage requests of the serial life cycle: a subDir request besides
SerialStageRequests ==
    StageRequests
    \cup InvalidKerberosRequests
    \cup {StageRequest(<<118, 49>>, <<>>, PasswordSecrets, SubDirContext)}
    \cup {StageRequest(<<118, 49>>, <<FlagGuest>>, {}, SourceContext)}
    \cup {StageRequest(<<118, 49>>, <<FlagGuest, FlagSecKrb5, FlagCruid1>>,
                        KrbSecrets(<<118, 49>>), SourceContext)}

UnstageRequest(v, path) ==
    [op |-> "unstage", volumeID |-> v, capability |-> FALSE,
     path |-> path, staging |-> "", context |-> {},
     mountFlags |-> <<>>, secrets |-> {}]

\* unstage requests that lack a field: the volume id, the staging path
InvalidUnstageRequests ==
    {UnstageRequest(<<>>, "/staging/v1"), UnstageRequest(<<118, 49>>, "")}

UnstageRequests ==
    {UnstageRequest(v, StagingPath(v)) : v \in VolumeIDs}
    \cup InvalidUnstageRequests

PublishRequests ==
    {[op |-> "publish", volumeID |-> v, capability |-> TRUE,
      path |-> TargetPath(v), staging |-> StagingPath(v), context |-> {},
      mountFlags |-> <<>>, secrets |-> {}] : v \in PublishedVolumes}

UnpublishRequests ==
    {[op |-> "unpublish", volumeID |-> v, capability |-> FALSE,
      path |-> TargetPath(v), staging |-> "", context |-> {},
      mountFlags |-> <<>>, secrets |-> {}] : v \in PublishedVolumes}

(***************************************************************************)
(* Returning from a handler                                                *)
(***************************************************************************)

\* a handler that holds no lock returns
Return(w, r) ==
    /\ pc' = [pc EXCEPT ![w] = "done"]
    /\ res' = [res EXCEPT ![w] = r]

\* NodeStageVolume returns: the deferred Release of line 157 runs
StageReturn_ReleaseOnSuccessOnly(w, r) ==
    /\ Return(w, r)
    /\ volumeLocks' = IF r.code = "OK" THEN LocksAfterRelease(req[w].volumeID)
                      ELSE volumeLocks

StageReturn(w, r) ==
    /\ Return(w, r)
    /\ volumeLocks' = LocksAfterRelease(req[w].volumeID)

\* NodeUnstageVolume returns: the deferred Release of line 258 runs
UnstageReturn(w, r) ==
    /\ Return(w, r)
    /\ volumeLocks' = LocksAfterRelease(req[w].volumeID)

\* lines 154-157, 255-258: the Release is deferred after the TryAcquire that
\* succeeded, so a call that returns Aborted releases nothing
LocksAfterAborted_Released(volumeID) == LocksAfterRelease(volumeID)

LocksAfterAborted(volumeID) == volumeLocks

(***************************************************************************)
(* NodeStageVolume (nodeserver.go, lines 111-242)                          *)
(***************************************************************************)

\* lines 135-148: the context's source, keys compared in lower case
ContextSources(context) ==
    LET vals == SecretValues(context, sourceField)
    IN  IF vals = {} THEN {<<>>} ELSE vals

\* lines 135-148: the context's subDir; "" if the context has none
ContextSubDirs(context) ==
    LET vals == SecretValues(context, subDirField)
    IN  IF vals = {} THEN {<<>>} ELSE vals

\* replaceWithMap: each key of the map found in the string gives way to its
\* value; the requests carry no pv or pvc metadata, so the map is empty
replaceWithMap(str, m) == str

\* lines 219-225: the source handed to Mount
MountSource_JoinAlways(source, subDir) ==
    TrimRight(source, 47) \o <<47>> \o replaceWithMap(subDir, {})

MountSource(source, subDir) ==
    IF subDir # <<>>
    THEN TrimRight(source, 47) \o <<47>> \o replaceWithMap(subDir, {})
    ELSE source

\* lines 160-169: a credential of the secrets, trimmed; "" if there is none
Credentials(secrets, name) ==
    IF SecretValues(secrets, name) = {} THEN {<<>>}
    ELSE {TrimSpace(v) : v \in SecretValues(secrets, name)}

\* hasGuestMountOptions: one of the mount flags is "guest"
hasGuestMountOptions(mountFlags) ==
    \E i \in 1..Len(mountFlags) : mountFlags[i] = FlagGuest

\* lines 194-196, the Linux branch: the sensitive options handed to Mount
SensitiveMountOptions_IgnoresKerberos(requireUsernamePwdOption, useKerberosCache, username, password) ==
    IF requireUsernamePwdOption
    THEN <<usernameField \o <<61>> \o username \o <<44>>
           \o passwordField \o <<61>> \o password>>
    ELSE <<>>

SensitiveMountOptions(requireUsernamePwdOption, useKerberosCache, username, password) ==
    IF requireUsernamePwdOption /\ ~useKerberosCache
    THEN <<usernameField \o <<61>> \o username \o <<44>>
           \o passwordField \o <<61>> \o password>>
    ELSE <<>>

\* lines 154-156: what the handler does with TryAcquire's answer
StageOnAcquire_Proceed(acquired) == "proceed"

StageOnAcquire(acquired) == IF acquired THEN "proceed" ELSE "Aborted"

\* lines 112-157: validation, then the lock
StageBegin(w, r) ==
    /\ pc[w] = "idle"
    /\ served < MaxRequests
    /\ served' = served + 1
    /\ req' = [req EXCEPT ![w] = r]
    /\ loc' = [loc EXCEPT ![w] = NoLocals]
    /\ UNCHANGED <<fs, krb5Dir, cacheDirExists>>
    /\ \E source \in ContextSources(r.context) :
        IF r.volumeID = <<>> \/ ~r.capability \/ r.path = "" \/ source = <<>>
        THEN /\ Return(w, Result("InvalidArgument", "request"))
             /\ UNCHANGED volumeLocks
        ELSE IF StageOnAcquire(TryAcquire(r.volumeID)) = "Aborted"
        THEN /\ Return(w, Result("Aborted", "lock"))
             /\ volumeLocks' = LocksAfterAborted(r.volumeID)
        ELSE /\ volumeLocks' = LocksAfterAcquire(r.volumeID)
             /\ pc' = [pc EXCEPT ![w] = "ensureKrb"]
             /\ UNCHANGED res

\* ensureKerberosCache, lines 504-527: the checks, then WriteFile and Chown
EnsureKerberosCacheWrite(w) ==
    /\ pc[w] = "ensureKrb"
    /\ UNCHANGED served
    /\ UNCHANGED <<fs, cacheDirExists, req>>
    /\ LET r == req[w]
           uid == getCredUID(r.mountFlags)
           name == getKrb5CcacheName(uid.val)
           path == VolumeCachePath(r.volumeID)
       IN  IF GOOS = "windows" \/ ~hasKerberosMountOption(r.mountFlags)
           THEN /\ pc' = [pc EXCEPT ![w] = "probe"]
                /\ UNCHANGED <<volumeLocks, krb5Dir, loc, res>>
           ELSE IF ~cacheDirExists \/ ~uid.ok
           THEN /\ StageReturn(w, Result("Internal", "kerberos"))
                /\ UNCHANGED <<krb5Dir, loc>>
           ELSE \E raw \in (IF SecretValues(r.secrets, name) = {} THEN {<<>>}
                            ELSE SecretValues(r.secrets, name)) :
                LET cache == getKerberosCache(uid.val, raw)
                IN  IF ~cache.ok
                    THEN /\ StageReturn(w, Result("Internal", "kerberos"))
                         /\ UNCHANGED <<krb5Dir, loc>>
                    ELSE \E outcome \in {"ok", "write", "chown"} :
                         /\ krb5Dir' =
                              IF outcome = "write" THEN krb5Dir
                              ELSE IF outcome = "chown"
                              THEN WriteFile(krb5Dir, path, cache.content)
                              ELSE Chown(WriteFile(krb5Dir, path, cache.content),
                                         path, uid.val)
                         /\ IF outcome = "ok"
                            THEN /\ pc' = [pc EXCEPT ![w] = "krbStat"]
                                 /\ loc' = [loc EXCEPT
                                      ![w].credUID = uid.val,
                                      ![w].content = cache.content,
                                      ![w].krb5CacheFileName = cache.name]
                                 /\ UNCHANGED <<volumeLocks, res>>
                            ELSE /\ StageReturn(w, Result("Internal", "kerberos"))
                                 /\ loc' = [loc EXCEPT ![w].faulted = TRUE]

\* lines 529-535: Stat of the canonical name decides whether to remove it
EnsureKerberosCacheStat(w) ==
    /\ pc[w] = "krbStat"
    /\ UNCHANGED served
    /\ pc' = [pc EXCEPT ![w] =
                IF StatExists(krb5Dir, loc[w].krb5CacheFileName)
                THEN "krbRemove" ELSE "krbSymlink"]
    /\ UNCHANGED <<volumeLocks, fs, krb5Dir, cacheDirExists, req, loc, res>>

\* line 532: Remove of the canonical name; a failure is only logged
EnsureKerberosCacheRemove(w) ==
    /\ pc[w] = "krbRemove"
    /\ UNCHANGED served
    /\ pc' = [pc EXCEPT ![w] = "krbSymlink"]
    /\ \E fault \in BOOLEAN :
        LET there == LstatExists(krb5Dir, loc[w].krb5CacheFileName) IN
        /\ krb5Dir' = IF fault \/ ~there THEN krb5Dir
                      ELSE DirDel(krb5Dir, BaseName(loc[w].krb5CacheFileName))
        /\ loc' = [loc EXCEPT ![w].faulted = @ \/ (fault /\ there)]
    /\ UNCHANGED <<volumeLocks, fs, cacheDirExists, req, res>>

\* lines 538-542: Symlink fails when the name is taken
EnsureKerberosCacheSymlink(w) ==
    /\ pc[w] = "krbSymlink"
    /\ UNCHANGED served
    /\ UNCHANGED <<fs, cacheDirExists, req>>
    /\ \E fault \in BOOLEAN :
        IF fault \/ LstatExists(krb5Dir, loc[w].krb5CacheFileName)
        THEN /\ StageReturn(w, Result("Internal", "kerberos"))
             /\ loc' = [loc EXCEPT ![w].faulted =
                          @ \/ ~LstatExists(krb5Dir, loc[w].krb5CacheFileName)]
             /\ UNCHANGED krb5Dir
        ELSE /\ krb5Dir' = DirPut(krb5Dir, BaseName(loc[w].krb5CacheFileName),
                                  LinkEntry(VolumeCachePath(req[w].volumeID)))
             /\ loc' = [loc EXCEPT ![w].useKerberosCache = TRUE]
             /\ pc' = [pc EXCEPT ![w] = "probe"]
             /\ UNCHANGED <<volumeLocks, res>>

\* lines 191-237: the returns of NodeStageVolume that follow
\* ensureKerberosCache call neither deleteKerberosCache nor any Remove, so
\* a failed call leaves the cache directory as ensureKerberosCache left it
CacheAfterFailedStage_RolledBack(dir, volumeID) ==
    [n \in {m \in DOMAIN dir :
               /\ m # volumeKerberosCacheName(volumeID)
               /\ ~(dir[m].kind = "symlink"
                       /\ dir[m].target = VolumeCachePath(volumeID))} |-> dir[n]]

CacheAfterFailedStage(dir, volumeID) == dir

\* prepareStagePath / preparePublishPath: nothing to prepare on Linux
prepareStagePath(st) == "nil"

preparePublishPath(st) == "nil"

\* lines 228-230: what the polled condition returns once Mount has returned
StageCondition_RetryOnError(mountErr) ==
    [done |-> mountErr = "nil", err |-> "nil"]

StageCondition(mountErr) == [done |-> TRUE, err |-> mountErr]

\* lines 232-241: the response once PollImmediate has returned pollErr
StageAfterPoll(mountComplete, pollErr) ==
    IF ~mountComplete THEN Result("Internal", "timeout")
    ELSE IF pollErr # "nil" THEN Result("Internal", "mount")
    ELSE Result("OK", "mounted")

\* lines 191-228: MkdirAll, the probe of the staging path and, unless it is
\* mounted already, the call of the mount primitive inside PollImmediate
StageProbe(w) ==
    /\ pc[w] = "probe"
    /\ UNCHANGED served
    /\ UNCHANGED <<cacheDirExists, req>>
    /\ LET target == req[w].path IN
       \E health \in Healths, f \in ProbeFaults \cup {"mkdirall"},
          source \in ContextSources(req[w].context),
          subDir \in ContextSubDirs(req[w].context),
          username \in Credentials(req[w].secrets, usernameField),
          password \in Credentials(req[w].secrets, passwordField) :
        IF ~MkdirAllOk(Seen(fs[target], health), f = "mkdirall")
        THEN /\ StageReturn(w, Result("Internal", "mkdir"))
             /\ krb5Dir' = CacheAfterFailedStage(krb5Dir, req[w].volumeID)
             /\ UNCHANGED <<fs, loc>>
        ELSE LET saw == AfterMkdirAll(Seen(fs[target], health))
                 probe == ensureMountPoint(saw, f)
                 kept == ProbeOf(probe, saw, f)
             IN  /\ fs' = [fs EXCEPT ![target] = Stored(probe.st)]
                 /\ krb5Dir' = IF probe.err # "nil"
                               THEN CacheAfterFailedStage(krb5Dir, req[w].volumeID)
                               ELSE krb5Dir
                 /\ IF AfterEnsureMountPoint(probe.mnt, probe.err) = "Internal"
                    THEN /\ StageReturn(w, Result("Internal", "probe"))
                         /\ loc' = [loc EXCEPT ![w].probe = kept]
                    ELSE IF AfterEnsureMountPoint(probe.mnt, probe.err) = "mounted"
                    THEN /\ StageReturn(w, Result("OK", "already mounted"))
                         /\ loc' = [loc EXCEPT ![w].probe = kept]
                    ELSE IF prepareStagePath(probe.st) # "nil"
                    THEN /\ StageReturn(w, Result("Unknown", "prepare"))
                         /\ loc' = [loc EXCEPT ![w].probe = kept]
                    ELSE /\ loc' = [loc EXCEPT
                                      ![w].probe = kept,
                                      ![w].mountCalls = 1,
                                      ![w].mountSource = MountSource(source, subDir),
                                      ![w].sensitiveMountOptions =
                                          SensitiveMountOptions(
                                              ~hasGuestMountOptions(req[w].mountFlags),
                                              loc[w].useKerberosCache,
                                              username, password)]
                         /\ pc' = [pc EXCEPT ![w] = "mounting"]
                         /\ UNCHANGED <<volumeLocks, res>>

\* The mount primitive returns to the condition PollImmediate is running on
\* the handler's own goroutine; lines 229-241 follow.  A condition that is
\* not done and gave no error is polled again.
StageMountReturns(w) ==
    /\ pc[w] = "mounting"
    /\ UNCHANGED served
    /\ UNCHANGED <<cacheDirExists, req>>
    /\ LET target == req[w].path IN
       \E ok \in BOOLEAN :
        LET mountErr == IF ok /\ fs[target].exists THEN "nil" ELSE "mount"
            cond == StageCondition(mountErr)
            again == ~cond.done /\ cond.err = "nil"
                     /\ loc[w].elapsed < PollTimeout
            pollErr == IF cond.err # "nil" THEN cond.err
                       ELSE IF cond.done THEN "nil" ELSE "wait timeout"
        IN  /\ fs' = IF mountErr = "nil"
                     THEN [fs EXCEPT ![target] = AfterMount("cifs")] ELSE fs
            /\ krb5Dir' = IF ~again /\ pollErr # "nil"
                          THEN CacheAfterFailedStage(krb5Dir, req[w].volumeID)
                          ELSE krb5Dir
            /\ IF again
               THEN /\ loc' = [loc EXCEPT ![w].mountComplete = TRUE,
                                          ![w].mountErr = mountErr,
                                          ![w].mountCalls = @ + 1]
                    /\ UNCHANGED <<volumeLocks, pc, res>>
               ELSE /\ loc' = [loc EXCEPT ![w].mountComplete = TRUE,
                                          ![w].mountErr = mountErr]
                    /\ StageReturn(w, StageAfterPoll(TRUE, pollErr))

\* A minute passes while the mount primitive has not returned: the handler
\* is inside the condition, which PollImmediate does not interrupt.
Tick(w) ==
    /\ pc[w] = "mounting"
    /\ UNCHANGED served
    /\ loc[w].elapsed <= PollTimeout
    /\ loc' = [loc EXCEPT ![w].elapsed = @ + 1]
    /\ UNCHANGED <<volumeLocks, fs, krb5Dir, cacheDirExists, pc, req, res>>

(***************************************************************************)
(* NodeUnstageVolume (lines 245-271) and deleteKerberosCache (547-591)     *)
(***************************************************************************)

\* lines 246-258
UnstageBegin(w, r) ==
    /\ pc[w] = "idle"
    /\ served < MaxRequests
    /\ served' = served + 1
    /\ req' = [req EXCEPT ![w] = r]
    /\ loc' = [loc EXCEPT ![w] = NoLocals]
    /\ UNCHANGED <<fs, krb5Dir, cacheDirExists>>
    /\ IF r.volumeID = <<>> \/ r.path = ""
       THEN /\ Return(w, Result("InvalidArgument", "request"))
            /\ UNCHANGED volumeLocks
       ELSE IF ~TryAcquire(r.volumeID)
       THEN /\ Return(w, Result("Aborted", "lock"))
            /\ volumeLocks' = LocksAfterAborted(r.volumeID)
       ELSE /\ volumeLocks' = LocksAfterAcquire(r.volumeID)
            /\ pc' = [pc EXCEPT ![w] = "cleanup"]
            /\ UNCHANGED res

\* lines 261-264: deleteKerberosCache is called only if the cleanup of the
\* staging path returned no error
AfterCleanup_DeleteAnyway(ok) == "delCheck"

AfterCleanup(ok) == IF ok THEN "delCheck" ELSE "Internal"

\* lines 260-263
UnstageCleanup(w) ==
    /\ pc[w] = "cleanup"
    /\ UNCHANGED served
    /\ UNCHANGED <<krb5Dir, cacheDirExists, req>>
    /\ \E fault \in {"none", "unmount", "remove"} :
        LET done == CleanupMountPoint(fs[req[w].path], fault = "unmount",
                                      fault = "remove")
        IN  /\ fs' = [fs EXCEPT ![req[w].path] = done.st]
            /\ loc' = [loc EXCEPT ![w].unmountCalls = @ + done.unmounts,
                                  ![w].faulted = ~done.ok]
            /\ IF AfterCleanup(done.ok) = "delCheck"
               THEN /\ pc' = [pc EXCEPT ![w] = "delCheck"]
                    /\ UNCHANGED <<volumeLocks, res>>
               ELSE UnstageReturn(w, Result("Internal", "unmount"))

\* where the scan of the directory entries goes next
ScanNext(entries) == IF entries = <<>> THEN "delFile" ELSE "delScan"

\* lines 548-569: the directory and the volume's file are looked up, then
\* the directory is listed.  A Stat error other than absence: of the
\* directory, nil is returned (exists is false); of the file, the error.
DeleteKerberosCacheCheck(w) ==
    /\ pc[w] = "delCheck"
    /\ UNCHANGED served
    /\ UNCHANGED <<fs, krb5Dir, cacheDirExists, req>>
    /\ \E fault \in {"none", "stat dir", "stat file", "readdir"} :
        IF ~cacheDirExists \/ fault = "stat dir"
        THEN /\ UnstageReturn(w, Result("OK", "no cache directory"))
             /\ loc' = [loc EXCEPT ![w].faulted = fault # "none"]
        ELSE IF fault = "stat file"
        THEN /\ UnstageReturn(w, Result("Internal", "kerberos"))
             /\ loc' = [loc EXCEPT ![w].faulted = TRUE]
        ELSE IF ~StatExists(krb5Dir, VolumeCachePath(req[w].volumeID))
        THEN /\ UnstageReturn(w, Result("OK", "no cache file"))
             /\ UNCHANGED loc
        ELSE LET dirEntries == IF fault = "readdir" THEN <<>>
                               ELSE SortNames(DOMAIN krb5Dir)
             IN  /\ loc' = [loc EXCEPT ![w].dirEntries = dirEntries,
                                       ![w].faulted = fault # "none"]
                 /\ pc' = [pc EXCEPT ![w] = ScanNext(dirEntries)]
                 /\ UNCHANGED <<volumeLocks, res>>

\* line 576: the entry is a symlink to the volume's cache file
PointsAtVolume_ByFileName(target, volumeID) ==
    target = volumeKerberosCacheName(volumeID)

PointsAtVolume(target, volumeID) == target = VolumeCachePath(volumeID)

\* lines 571-576: Lstat and Readlink of the next entry
DeleteKerberosCacheReadlink(w) ==
    /\ pc[w] = "delScan"
    /\ UNCHANGED served
    /\ UNCHANGED <<volumeLocks, fs, krb5Dir, cacheDirExists, req, res>>
    /\ LET filePath == getKerberosFilePath(Head(loc[w].dirEntries)) IN
       \E fault \in BOOLEAN :
        IF /\ ~fault
           /\ LstatExists(krb5Dir, filePath)
           /\ PointsAtVolume(Readlink(krb5Dir, filePath), req[w].volumeID)
        THEN /\ pc' = [pc EXCEPT ![w] = "delRemove"]
             /\ UNCHANGED loc
        ELSE /\ pc' = [pc EXCEPT ![w] = ScanNext(Tail(loc[w].dirEntries))]
             /\ loc' = [loc EXCEPT ![w].dirEntries = Tail(@),
                                   ![w].faulted = @ \/ fault]

\* lines 577-580: Remove of the entry whose target matched
DeleteKerberosCacheRemoveLink(w) ==
    /\ pc[w] = "delRemove"
    /\ UNCHANGED served
    /\ UNCHANGED <<volumeLocks, fs, cacheDirExists, req, res>>
    /\ LET name == Head(loc[w].dirEntries) IN
       \E fault \in BOOLEAN :
        LET gone == ~fault /\ name \in DOMAIN krb5Dir IN
        /\ krb5Dir' = IF gone THEN DirDel(krb5Dir, name) ELSE krb5Dir
        /\ pc' = [pc EXCEPT ![w] = ScanNext(Tail(loc[w].dirEntries))]
        /\ loc' = [loc EXCEPT ![w].dirEntries = Tail(@),
                              ![w].faulted = @ \/ fault,
                              ![w].removed = IF gone THEN Append(@, name) ELSE @]

\* lines 586-590: what deleteKerberosCache returns after the last Remove
AfterRemoveFile_Propagated(removeFailed) ==
    IF removeFailed THEN Result("Internal", "kerberos")
    ELSE Result("OK", "unstaged")

AfterRemoveFile(removeFailed) == Result("OK", "unstaged")

\* lines 585-590: Remove of the volume's cache file; nil is returned
DeleteKerberosCacheRemoveFile(w) ==
    /\ pc[w] = "delFile"
    /\ UNCHANGED served
    /\ UNCHANGED <<fs, cacheDirExists, req>>
    /\ LET name == volumeKerberosCacheName(req[w].volumeID) IN
       \E fault \in BOOLEAN :
        LET gone == ~fault /\ name \in DOMAIN krb5Dir IN
        /\ krb5Dir' = IF gone THEN DirDel(krb5Dir, name) ELSE krb5Dir
        /\ loc' = [loc EXCEPT ![w].faulted = @ \/ fault,
                              ![w].removed = IF gone THEN Append(@, name) ELSE @]
        /\ UnstageReturn(w, AfterRemoveFile(~gone))

(***************************************************************************)
(* NodePublishVolume (lines 42-88), NodeUnpublishVolume (lines 91-108)     *)
(***************************************************************************)

\* lines 43-59 with the volume lock tested the way NodeStageVolume does
PublishBegin_Locked(w, r) ==
    /\ pc[w] = "idle"
    /\ served < MaxRequests
    /\ served' = served + 1
    /\ req' = [req EXCEPT ![w] = r]
    /\ loc' = [loc EXCEPT ![w] = NoLocals]
    /\ UNCHANGED <<volumeLocks, fs, krb5Dir, cacheDirExists>>
    /\ IF ~r.capability \/ r.volumeID = <<>> \/ r.path = "" \/ r.staging = ""
       THEN Return(w, Result("InvalidArgument", "request"))
       ELSE IF ~TryAcquire(r.volumeID)
       THEN Return(w, Result("Aborted", "lock"))
       ELSE /\ pc' = [pc EXCEPT ![w] = "publishProbe"]
            /\ UNCHANGED res

\* lines 43-59
PublishBegin(w, r) ==
    /\ pc[w] = "idle"
    /\ served < MaxRequests
    /\ served' = served + 1
    /\ req' = [req EXCEPT ![w] = r]
    /\ loc' = [loc EXCEPT ![w] = NoLocals]
    /\ UNCHANGED <<volumeLocks, fs, krb5Dir, cacheDirExists>>
    /\ IF ~r.capability \/ r.volumeID = <<>> \/ r.path = "" \/ r.staging = ""
       THEN Return(w, Result("InvalidArgument", "request"))
       ELSE /\ pc' = [pc EXCEPT ![w] = "publishProbe"]
            /\ UNCHANGED res

\* lines 66-77
PublishProbe(w) ==
    /\ pc[w] = "publishProbe"
    /\ UNCHANGED served
    /\ UNCHANGED <<volumeLocks, krb5Dir, cacheDirExists, req>>
    /\ LET target == req[w].path IN
       \E health \in Healths, f \in ProbeFaults :
        LET saw == Seen(fs[target], health)
            probe == ensureMountPoint(saw, f)
        IN  /\ fs' = [fs EXCEPT ![target] = Stored(probe.st)]
            /\ loc' = [loc EXCEPT ![w].probe = ProbeOf(probe, saw, f)]
            /\ IF AfterEnsureMountPoint(probe.mnt, probe.err) = "Internal"
               THEN Return(w, Result("Internal", "probe"))
               ELSE IF AfterEnsureMountPoint(probe.mnt, probe.err) = "mounted"
               THEN Return(w, Result("OK", "already mounted"))
               ELSE IF preparePublishPath(probe.st) # "nil"
               THEN Return(w, Result("Unknown", "prepare"))
               ELSE /\ pc' = [pc EXCEPT ![w] = "publishMount"]
                    /\ UNCHANGED res

\* os.Remove of a directory: it must be there, with nothing mounted on it
RemoveDirOk(st, fault) == ~fault /\ st.exists /\ ~IsMounted(st)

\* lines 80-85: what a failed bind mount leads to
PublishMountFailed_NoRemove(st, removeFault) ==
    [st |-> st, result |-> Result("Internal", "mount"), removeTried |-> FALSE]

PublishMountFailed(st, removeFault) ==
    IF RemoveDirOk(st, removeFault)
    THEN [st |-> NoMount, result |-> Result("Internal", "mount"),
          removeTried |-> TRUE]
    ELSE [st |-> st, result |-> Result("Internal", "remove"),
          removeTried |-> TRUE]

\* lines 79-87
PublishMount(w) ==
    /\ pc[w] = "publishMount"
    /\ UNCHANGED served
    /\ UNCHANGED <<volumeLocks, krb5Dir, cacheDirExists, req>>
    /\ LET target == req[w].path IN
       \E ok \in BOOLEAN, removeFault \in BOOLEAN :
        IF ok /\ fs[target].exists
        THEN /\ fs' = [fs EXCEPT ![target] = AfterMount("bind")]
             /\ loc' = [loc EXCEPT ![w].mountCalls = @ + 1,
                                   ![w].mountErr = "nil"]
             /\ Return(w, Result("OK", "mounted"))
        ELSE LET failed == PublishMountFailed(fs[target], removeFault)
             IN  /\ fs' = [fs EXCEPT ![target] = failed.st]
                 /\ loc' = [loc EXCEPT ![w].mountCalls = @ + 1,
                                       ![w].mountErr = "mount",
                                       ![w].removed = IF failed.removeTried
                                                      THEN <<target>> ELSE <<>>]
                 /\ Return(w, failed.result)

\* lines 92-99
UnpublishBegin(w, r) ==
    /\ pc[w] = "idle"
    /\ served < MaxRequests
    /\ served' = served + 1
    /\ req' = [req EXCEPT ![w] = r]
    /\ loc' = [loc EXCEPT ![w] = NoLocals]
    /\ UNCHANGED <<volumeLocks, fs, krb5Dir, cacheDirExists>>
    /\ IF r.volumeID = <<>> \/ r.path = ""
       THEN Return(w, Result("InvalidArgument", "request"))
       ELSE /\ pc' = [pc EXCEPT ![w] = "unpublishCleanup"]
            /\ UNCHANGED res

\* lines 101-107
UnpublishCleanup(w) ==
    /\ pc[w] = "unpublishCleanup"
    /\ UNCHANGED served
    /\ UNCHANGED <<volumeLocks, krb5Dir, cacheDirExists, req>>
    /\ \E fault \in {"none", "unmount", "remove"} :
        LET done == CleanupMountPoint(fs[req[w].path], fault = "unmount",
                                      fault = "remove")
        IN  /\ fs' = [fs EXCEPT ![req[w].path] = done.st]
            /\ loc' = [loc EXCEPT ![w].unmountCalls = @ + done.unmounts]
            /\ Return(w, IF done.ok THEN Result("OK", "unpublished")
                         ELSE Result("Internal", "unmount"))

(***************************************************************************)
(* The server and its environment                                          *)
(***************************************************************************)

\* the response has been delivered; the worker takes the next request
Finish(w) ==
    /\ pc[w] = "done"
    /\ UNCHANGED served
    /\ pc' = [pc EXCEPT ![w] = "idle"]
    /\ req' = [req EXCEPT ![w] = NoRequest]
    /\ loc' = [loc EXCEPT ![w] = NoLocals]
    /\ res' = [res EXCEPT ![w] = NoResult]
    /\ UNCHANGED <<volumeLocks, fs, krb5Dir, cacheDirExists>>

Init ==
    /\ volumeLocks = {}
    /\ fs = [p \in Paths |-> NoMount]
    /\ krb5Dir = [n \in {} |-> 0]
    /\ cacheDirExists \in BOOLEAN
    /\ pc = [w \in Workers |-> "idle"]
    /\ req = [w \in Workers |-> NoRequest]
    /\ loc = [w \in Workers |-> NoLocals]
    /\ res = [w \in Workers |-> NoResult]
    /\ served = 0

Next ==
    \/ \E w \in Workers, r \in StageRequests : StageBegin(w, r)
    \/ \E w \in Workers : EnsureKerberosCacheWrite(w)
    \/ \E w \in Workers : EnsureKerberosCacheStat(w)
    \/ \E w \in Workers : EnsureKerberosCacheRemove(w)
    \/ \E w \in Workers : EnsureKerberosCacheSymlink(w)
    \/ \E w \in Workers : StageProbe(w)
    \/ \E w \in Workers : StageMountReturns(w)
    \/ \E w \in Workers : Tick(w)
    \/ \E w \in Workers, r \in UnstageRequests : UnstageBegin(w, r)
    \/ \E w \in Workers : UnstageCleanup(w)
    \/ \E w \in Workers : DeleteKerberosCacheCheck(w)
    \/ \E w \in Workers : DeleteKerberosCacheReadlink(w)
    \/ \E w \in Workers : DeleteKerberosCacheRemoveLink(w)
    \/ \E w \in Workers : DeleteKerberosCacheRemoveFile(w)
    \/ \E w \in Workers, r \in PublishRequests : PublishBegin(w, r)
    \/ \E w \in Workers : PublishProbe(w)
    \/ \E w \in Workers : PublishMount(w)
    \/ \E w \in Workers, r \in UnpublishRequests : UnpublishBegin(w, r)
    \/ \E w \in Workers : UnpublishCleanup(w)
    \/ \E w \in Workers : Finish(w)

Spec == Init /\ [][Next]_vars

\* worker w may begin a call: every call made earlier has returned
Alone(w) == \A u \in Workers \ {w} : pc[u] \in {"idle", "done"}

\* the stage and unstage calls of one volume's life cycle, made one after
\* the other: a call begins once the calls before it have returned
NextSerial ==
    \/ \E w \in Workers, r \in SerialStageRequests : Alone(w) /\ StageBegin(w, r)
    \/ \E w \in Workers : EnsureKerberosCacheWrite(w)
    \/ \E w \in Workers : EnsureKerberosCacheStat(w)
    \/ \E w \in Workers : EnsureKerberosCacheRemove(w)
    \/ \E w \in Workers : EnsureKerberosCacheSymlink(w)
    \/ \E w \in Workers : StageProbe(w)
    \/ \E w \in Workers : StageMountReturns(w)
    \/ \E w \in Workers : Tick(w)
    \/ \E w \in Workers, r \in UnstageRequests : Alone(w) /\ UnstageBegin(w, r)
    \/ \E w \in Workers : UnstageCleanup(w)
    \/ \E w \in Workers : DeleteKerberosCacheCheck(w)
    \/ \E w \in Workers : DeleteKerberosCacheReadlink(w)
    \/ \E w \in Workers : DeleteKerberosCacheRemoveLink(w)
    \/ \E w \in Workers : DeleteKerberosCacheRemoveFile(w)
    \/ \E w \in Workers : Finish(w)

SpecSerial == Init /\ [][NextSerial]_vars

(***************************************************************************)
(* Properties                                                              *)
(***************************************************************************)

InFlight(w) == pc[w] \notin {"idle", "done"}

\* the stage and unstage calls between a successful TryAcquire of v's lock
\* and its Release
Holders(v) ==
    {w \in Workers : /\ req[w].op \in {"stage", "unstage"}
                     /\ req[w].volumeID = v
                     /\ InFlight(w)}

\* worker w takes a stage or unstage request in this step
TakesLockedRequest(w) ==
    /\ pc[w] = "idle"
    /\ pc'[w] # "idle"
    /\ req'[w].op \in {"stage", "unstage"}

\* C1: at most one stage or unstage call per volume is between its
\* successful TryAcquire and its Release; a call that asks for the lock while
\* another holds it returns Aborted and the holder goes on; a valid call that
\* finds no holder proceeds.
C1_MutualExclusion ==
    /\ [](\A v \in VolumeIDs : Cardinality(Holders(v)) <= 1)
    /\ [][\A w \in Workers :
            TakesLockedRequest(w) /\ res'[w].code # "InvalidArgument" =>
                IF Holders(req'[w].volumeID) # {}
                THEN /\ pc'[w] = "done"
                     /\ res'[w].code = "Aborted"
                     /\ \A u \in Holders(req'[w].volumeID) : pc'[u] = pc[u]
                ELSE InFlight(w)' /\ res'[w].code = "none"]_vars

\* a stage call was turned away while another call held the volume's lock
C1_Witness ==
    \E w \in Workers, u \in Workers :
        /\ w # u
        /\ pc[w] = "done"
        /\ req[w].op = "stage"
        /\ res[w].code = "Aborted"
        /\ req[u].op = "stage"
        /\ u \in Holders(req[w].volumeID)

\* C2: a volume's lock is held only while a stage or unstage call that
\* acquired it is in flight: every return, successful or not, releases it.
C2_LockReleasedOnReturn ==
    \A v \in VolumeIDs : v \in volumeLocks => Holders(v) # {}

\* a stage call and an unstage call have failed and no lock is left held
C2_Witness ==
    \E w \in Workers, u \in Workers :
        /\ pc[w] = "done" /\ req[w].op = "stage"
        /\ res[w] = Result("Internal", "mount")
        /\ pc[u] = "done" /\ req[u].op = "unstage"
        /\ res[u] = Result("Internal", "unmount")
        /\ volumeLocks = {}

\* the probe of worker w found a mount that answers, and could look
FoundValidMount(w) ==
    /\ loc[w].probe.ran
    /\ loc[w].probe.saw.mount # "none"
    /\ loc[w].probe.saw.health = "ok"
    /\ loc[w].probe.fault = "none"

\* C3: a stage or publish call whose probe finds a valid mount at the target
\* (the state a successful earlier call with the same arguments left) invokes
\* the mount primitive not once and returns success.
C3_Idempotent ==
    \A w \in Workers :
        req[w].op \in {"stage", "publish"} /\ FoundValidMount(w) =>
            /\ pc[w] = "done"
            /\ res[w].code = "OK"
            /\ loc[w].mountCalls = 0

\* one worker's stage call mounted the share, the other's found it mounted
C3_Witness ==
    \E w \in Workers, u \in Workers :
        /\ pc[u] = "done" /\ req[u].op = "stage"
        /\ res[u] = Result("OK", "mounted") /\ loc[u].mountCalls = 1
        /\ pc[w] = "done" /\ req[w] = req[u]
        /\ FoundValidMount(w)
        /\ res[w] = Result("OK", "already mounted")

\* C4: when the primary check fails with a corruption indicator and no call
\* of the probe is made to fail, ensureMountPoint unmounts the path and
\* reports "not mounted", that is <false, nil>.
C4_CorruptedReportsNotMounted ==
    \A w \in Workers :
        loc[w].probe.ran /\ loc[w].probe.primary = "corrupt"
        /\ loc[w].probe.fault = "none" =>
            /\ loc[w].probe.unmounted
            /\ ~loc[w].probe.mnt
            /\ loc[w].probe.err = "nil"

\* C5: when the probe finds a mount whose listing fails and the recovery
\* Unmount succeeds, ensureMountPoint returns no error and the caller does
\* not fail on the probe.
C5_StaleMountNotSurfaced ==
    \A w \in Workers :
        loc[w].probe.ran /\ loc[w].probe.unmounted =>
            /\ loc[w].probe.err = "nil"
            /\ res[w] # Result("Internal", "probe")

\* the cache directory holds neither v's cache file nor a symlink to it
CacheClean(dir, v) ==
    /\ volumeKerberosCacheName(v) \notin DOMAIN dir
    /\ \A n \in DOMAIN dir :
        ~(dir[n].kind = "symlink" /\ dir[n].target = VolumeCachePath(v))

\* worker w's unstage call returns success in this step, the cache file
\* that ensureKerberosCache wrote for its volume being there before the step
UnstageSucceeds(w) ==
    /\ req[w].op = "unstage"
    /\ InFlight(w)
    /\ pc'[w] = "done"
    /\ res'[w].code = "OK"
    /\ StatExists(krb5Dir, VolumeCachePath(req[w].volumeID))

\* worker w takes a step of ensureKerberosCache or deleteKerberosCache
CacheStep(w) ==
    /\ pc[w] \in {"ensureKrb", "krbStat", "krbRemove", "krbSymlink",
                  "delCheck", "delScan", "delRemove", "delFile"}
    /\ <<pc[w], loc[w]>> # <<pc'[w], loc'[w]>>

\* the cache files of the volumes other than v are as they were
OtherCachesKept(v) ==
    \A o \in VolumeIDs \ {v} :
        LET n == volumeKerberosCacheName(o)
        IN  /\ n \in DOMAIN krb5Dir <=> n \in DOMAIN krb5Dir'
            /\ n \in DOMAIN krb5Dir => krb5Dir'[n] = krb5Dir[n]

\* C6 as stated: when deleteKerberosCache(V) has returned success, the
\* directory holds no symlink to V's cache file and not the file.
C6_RoundTripAlways ==
    [][\A w \in Workers :
        UnstageSucceeds(w) => CacheClean(krb5Dir', req[w].volumeID)]_vars

\* C6 as amended: when deleteKerberosCache(V) has returned success and none of
\* its Stat, ReadDir, Lstat, Readlink and Remove calls failed, the directory
\* holds no symlink to V's cache file and not the file; and no step of
\* ensureKerberosCache(V) or deleteKerberosCache(V) changes the cache file of
\* another volume.
C6_RoundTripUnlessCleanupFails ==
    [][\A w \in Workers :
        /\ UnstageSucceeds(w) /\ ~loc'[w].faulted =>
              CacheClean(krb5Dir', req[w].volumeID)
        /\ CacheStep(w) => OtherCachesKept(req[w].volumeID)]_vars

\* an unstage removed the canonical symlink and its volume's cache file,
\* and the other volume's cache file is still there
C6_Witness ==
    \E w \in Workers :
        /\ pc[w] = "done" /\ req[w].op = "unstage"
        /\ res[w] = Result("OK", "unstaged")
        /\ ~loc[w].faulted
        /\ Len(loc[w].removed) = 2
        /\ CacheClean(krb5Dir, req[w].volumeID)
        /\ \E o \in VolumeIDs \ {req[w].volumeID} :
              volumeKerberosCacheName(o) \in DOMAIN krb5Dir

\* C7: an unstage removes a directory entry in its symlink scan only if the
\* entry, at that moment, is a symlink to the cache file of its own volume.
C7_DeletesOnlyOwnSymlink ==
    [][\A w \in Workers :
        pc[w] = "delRemove" /\ pc'[w] # "delRemove" /\ krb5Dir' # krb5Dir =>
            Readlink(krb5Dir, getKerberosFilePath(Head(loc[w].dirEntries)))
                = VolumeCachePath(req[w].volumeID)]_vars

\* C8: a stage call is not still waiting for the mount primitive once the
\* polling window has elapsed.
C8_StageEndsAtTimeout ==
    \A w \in Workers : pc[w] = "mounting" => loc[w].elapsed <= PollTimeout

\* C9: a stage call invokes the mount primitive at most once; the attempt's
\* return ends the call, a failed attempt with Internal, a successful one
\* with success.
C9_SingleMountAttempt ==
    \A w \in Workers :
        req[w].op = "stage" =>
            /\ loc[w].mountCalls <= 1
            /\ loc[w].mountComplete =>
                  /\ pc[w] = "done"
                  /\ res[w] = IF loc[w].mountErr = "nil"
                              THEN Result("OK", "mounted")
                              ELSE Result("Internal", "mount")

\* a stage call's one mount attempt failed and the call returned Internal
C9_Witness ==
    \E w \in Workers :
        /\ pc[w] = "done" /\ req[w].op = "stage"
        /\ loc[w].mountCalls = 1 /\ loc[w].mountErr = "mount"
        /\ res[w] = Result("Internal", "mount")

\* worker w's publish call returns in this step, its bind mount having failed
PublishMountFails(w) ==
    /\ pc[w] = "publishMount"
    /\ pc'[w] = "done"
    /\ loc'[w].mountErr = "mount"

\* C10: a publish call whose bind mount fails tries to remove the target and
\* returns Internal: with the mount error, the target then being gone, if
\* the removal succeeded; with the removal error, the target being as it
\* was, if not.
C10_PublishRollsBack ==
    [][\A w \in Workers :
        PublishMountFails(w) =>
            /\ loc'[w].removed = <<req[w].path>>
            /\ res'[w].code = "Internal"
            /\ res'[w].why \in {"mount", "remove"}
            /\ res'[w].why = "mount" => fs'[req[w].path] = NoMount
            /\ res'[w].why = "remove" => fs'[req[w].path] = fs[req[w].path]]_vars

\* a publish call's bind mount failed and the target directory, which the
\* probe had made, is gone
C10_Witness ==
    \E w \in Workers :
        /\ pc[w] = "done" /\ req[w].op = "publish"
        /\ loc[w].probe.ran /\ ~loc[w].probe.saw.exists
        /\ loc[w].mountErr = "mount"
        /\ res[w] = Result("Internal", "mount")
        /\ loc[w].removed = <<req[w].path>>
        /\ ~fs[req[w].path].exists

\* worker w runs a publish or an unpublish call after this step
PublishSide(w) == req'[w].op \in {"publish", "unpublish"}

\* the step of a publish or unpublish call that worker w can take
PublishSideStep(w) ==
    \/ PublishProbe(w)
    \/ PublishMount(w)
    \/ UnpublishCleanup(w)

\* C11: no step of a publish or unpublish call changes the lock table or
\* returns Aborted, and such a call can take its next step, and a valid one
\* can begin, whatever the lock table holds.
C11_PublishIgnoresLock ==
    /\ [][\A w \in Workers :
            PublishSide(w) /\ <<pc[w], req[w]>> # <<pc'[w], req'[w]>> =>
                /\ volumeLocks' = volumeLocks
                /\ res'[w].code # "Aborted"]_vars
    /\ [](\A w \in Workers :
            /\ pc[w] \in {"publishProbe", "publishMount", "unpublishCleanup"} =>
                  ENABLED PublishSideStep(w)
            /\ pc[w] = "idle" /\ served < MaxRequests =>
                  \A r \in PublishRequests :
                      ENABLED (PublishBegin(w, r) /\ pc'[w] = "publishProbe"))

\* a publish call for a volume has returned success while a stage call for
\* the same volume, waiting for its mount, holds the volume's lock
C11_Witness ==
    \E w \in Workers, u \in Workers :
        /\ pc[w] = "done" /\ req[w].op = "publish"
        /\ res[w] = Result("OK", "mounted")
        /\ pc[u] = "mounting" /\ req[u].volumeID = req[w].volumeID
        /\ req[w].volumeID \in volumeLocks

\* the request asks for Kerberos and carries what ensureKerberosCache needs:
\* a sec=krb5 flag, a cruid flag with a number, a base64 ticket under the
\* secret key of that uid
ValidKerberosRequest(r) ==
    /\ hasKerberosMountOption(r.mountFlags)
    /\ getCredUID(r.mountFlags).ok
    /\ LET name == getKrb5CcacheName(getCredUID(r.mountFlags).val)
       IN  /\ SecretValues(r.secrets, name) # {}
           /\ \A raw \in SecretValues(r.secrets, name) :
                 getKerberosCache(getCredUID(r.mountFlags).val, raw).ok

\* worker w's ensureKerberosCache returns in this step
EnsureReturns(w) ==
    /\ pc[w] \in {"ensureKrb", "krbStat", "krbRemove", "krbSymlink"}
    /\ pc'[w] \in {"probe", "done"}

\* C12: with calls made one after the other, a Kerberos stage with a valid
\* request and an existing cache directory, none of whose file-system calls
\* fails, has ensureKerberosCache succeed and leave krb5cc_<uid> a symlink
\* to the volume's cache file, whatever krb5cc_<uid> was before.
C12_EnsureReplacesCanonicalLink ==
    [][\A w \in Workers :
        /\ EnsureReturns(w)
        /\ ValidKerberosRequest(req[w]) /\ cacheDirExists
        /\ ~loc'[w].faulted
        => /\ pc'[w] = "probe"
           /\ loc'[w].useKerberosCache
           /\ Readlink(krb5Dir', getKerberosFilePath(getKrb5CcacheName(
                  getCredUID(req[w].mountFlags).val)))
                = VolumeCachePath(req[w].volumeID)]_vars

\* the entry named n of the cache directory is a canonical krb5cc_<uid> one
IsCanonicalName(n) == HasPrefix(n, krb5Prefix)

\* C13: every canonical krb5cc_<uid> entry of the cache directory is a
\* symlink whose target is the cache file path of one volume; it is never a
\* regular file, and every other entry is a volume's cache file.
C13_CanonicalEntryIsLink ==
    \A n \in DOMAIN krb5Dir :
        IF IsCanonicalName(n)
        THEN /\ krb5Dir[n].kind = "symlink"
             /\ \E v \in VolumeIDs : krb5Dir[n].target = VolumeCachePath(v)
        ELSE /\ krb5Dir[n].kind = "file"
             /\ \E v \in VolumeIDs : n = volumeKerberosCacheName(v)

\* the cache files of two volumes exist at once beside the one canonical
\* symlink, after an unstage whose best-effort removal failed
C13_Witness ==
    /\ \A v \in VolumeIDs : volumeKerberosCacheName(v) \in DOMAIN krb5Dir
    /\ \E n \in DOMAIN krb5Dir :
          IsCanonicalName(n) /\ krb5Dir[n].kind = "symlink"
    /\ \E w \in Workers :
          /\ pc[w] = "done" /\ req[w].op = "unstage"
          /\ res[w].code = "OK" /\ loc[w].faulted

\* worker u's stage call has returned success, it was the first call made,
\* and worker w's unstage call for the same volume and staging path, the
\* second call made, returns in this step with no failure of the file
\* system or the mounter during it
StageThenUnstage(u, w) ==
    /\ served = 2
    /\ pc[u] = "done" /\ req[u].op = "stage" /\ res[u].code = "OK"
    /\ req[w].op = "unstage"
    /\ req[w].volumeID = req[u].volumeID /\ req[w].path = req[u].path
    /\ InFlight(w) /\ pc'[w] = "done"
    /\ ~loc'[w].faulted

\* C14: from no mount at the staging path, a successful stage followed by an
\* unstage of the same volume and path makes one Mount call, its source the
\* context's source when the context has no subDir, and one Unmount call;
\* the unstage returns success, and then the path is not mounted, the
\* volume's cache file does not exist and the volume's lock is free.
C14_StageUnstageRoundTrip ==
    [][\A u \in Workers, w \in Workers :
        StageThenUnstage(u, w) =>
            /\ loc[u].mountCalls = 1
            /\ \E source \in ContextSources(req[u].context) :
                  /\ ContextSubDirs(req[u].context) = {<<>>} =>
                        loc[u].mountSource = source
                  /\ \A subDir \in ContextSubDirs(req[u].context) \ {<<>>} :
                        loc[u].mountSource
                            = TrimRight(source, 47) \o <<47>> \o subDir
            /\ res'[w].code = "OK"
            /\ loc'[w].unmountCalls = 1
            /\ ~IsMounted(fs'[req[w].path])
            /\ ~StatExists(krb5Dir', VolumeCachePath(req[w].volumeID))
            /\ req[w].volumeID \notin volumeLocks'
            /\ TryAcquire(req[w].volumeID)']_vars

\* a Kerberos stage mounted "//s/a" and the unstage after it unmounted it
\* and removed the canonical symlink and the volume's cache file
C14_Witness ==
    \E u \in Workers, w \in Workers :
        /\ served = 2
        /\ pc[u] = "done" /\ req[u].op = "stage"
        /\ res[u] = Result("OK", "mounted")
        /\ loc[u].useKerberosCache /\ loc[u].mountSource = ShareSource
        /\ pc[w] = "done" /\ req[w].op = "unstage"
        /\ req[w].volumeID = req[u].volumeID
        /\ res[w] = Result("OK", "unstaged")
        /\ loc[w].unmountCalls = 1 /\ Len(loc[w].removed) = 2
        /\ krb5Dir = [n \in {} |-> 0]
        /\ volumeLocks = {}

\* worker w's unstage call is in the removals of deleteKerberosCache: the
\* staging path is cleaned up, the cache directory and file were found
InCacheRemovals(w) == pc[w] \in {"delScan", "delRemove", "delFile"}

\* C15: once an unstage call has cleaned up the staging path and is removing
\* cache entries, a Remove that fails (the entry stays) does not end the
\* call with an error: the call goes on, and when it returns it returns
\* success and the volume's lock is released.
C15_CacheCleanupFailuresTolerated ==
    [][\A w \in Workers :
        InCacheRemovals(w) /\ <<pc[w], loc[w]>> # <<pc'[w], loc'[w]>> =>
            /\ pc'[w] \in {"delScan", "delRemove", "delFile", "done"}
            /\ pc'[w] # "done" => res'[w] = NoResult
            /\ pc'[w] = "done" =>
                  /\ res'[w].code = "OK"
                  /\ req[w].volumeID \notin volumeLocks']_vars

\* an unstage call returned success though the Remove of the volume's cache
\* file failed: the file and the symlink to it are still there
C15_Witness ==
    \E w \in Workers :
        /\ pc[w] = "done" /\ req[w].op = "unstage"
        /\ res[w] = Result("OK", "unstaged")
        /\ loc[w].faulted /\ loc[w].removed = <<>>
        /\ volumeKerberosCacheName(req[w].volumeID) \in DOMAIN krb5Dir
        /\ \E n \in DOMAIN krb5Dir :
              krb5Dir[n].target = VolumeCachePath(req[w].volumeID)
        /\ req[w].volumeID \notin volumeLocks

\* the combined option "username=<username>,password=<password>" is among
\* the sensitive options worker w's stage call handed to Mount
PassesUserPassOption(w) ==
    \E username \in Credentials(req[w].secrets, usernameField),
       password \in Credentials(req[w].secrets, passwordField) :
        loc[w].sensitiveMountOptions =
            <<usernameField \o <<61>> \o username \o <<44>>
              \o passwordField \o <<61>> \o password>>

\* C16: a stage call that has called Mount (on Linux) handed it the option
\* username=...,password=... if and only if the mount flags have no guest
\* option and ensureKerberosCache returned false; with the ticket cache in
\* use the sensitive options are empty.
C16_UserPassIffNoGuestNoKerberos ==
    \A w \in Workers :
        req[w].op = "stage" /\ loc[w].mountCalls > 0 =>
            /\ PassesUserPassOption(w) <=>
                  /\ ~hasGuestMountOptions(req[w].mountFlags)
                  /\ ~loc[w].useKerberosCache
            /\ loc[w].useKerberosCache <=>
                  hasKerberosMountOption(req[w].mountFlags)
            /\ loc[w].useKerberosCache => loc[w].sensitiveMountOptions = <<>>

\* two stage calls have called Mount: one with the password option
\* "username=u,password=p", one with the ticket cache and without it
C16_Witness ==
    /\ \E w \in Workers :
          /\ req[w].op = "stage" /\ loc[w].mountCalls = 1
          /\ loc[w].sensitiveMountOptions =
                <<<<117, 115, 101, 114, 110, 97, 109, 101, 61, 117, 44,
                    112, 97, 115, 115, 119, 111, 114, 100, 61, 112>>>>
    /\ \E w \in Workers :
          /\ req[w].op = "stage" /\ loc[w].mountCalls = 1
          /\ loc[w].useKerberosCache
          /\ loc[w].sensitiveMountOptions = <<>>

\* the canonical cache name of worker w's stage request
CanonicalPath(w) ==
    getKerberosFilePath(getKrb5CcacheName(getCredUID(req[w].mountFlags).val))

\* workers w and u run Kerberos stage calls for two volumes with one cruid
StagesSharingUID(w, u) ==
    /\ w # u
    /\ req[w].op = "stage" /\ req[u].op = "stage"
    /\ req[w].volumeID # req[u].volumeID
    /\ ValidKerberosRequest(req[w]) /\ ValidKerberosRequest(req[u])
    /\ getCredUID(req[w].mountFlags) = getCredUID(req[u].mountFlags)

\* C17: of two Kerberos stage calls for different volumes with the same
\* cruid, neither has its ensureKerberosCache fail, no file-system call
\* having failed by itself, while the canonical name holds the live symlink
\* the other call made; and once both have succeeded the canonical symlink
\* points at the cache file of one of the two volumes.
C17_ConcurrentEnsureBothSucceed ==
    /\ [][\A w \in Workers, u \in Workers :
            /\ StagesSharingUID(w, u)
            /\ loc[u].useKerberosCache
            /\ Readlink(krb5Dir, CanonicalPath(w)) = VolumeCachePath(req[u].volumeID)
            /\ EnsureReturns(w)
            /\ ~loc'[w].faulted
            => pc'[w] = "probe"]_vars
    /\ [](\A w \in Workers, u \in Workers :
            /\ StagesSharingUID(w, u)
            /\ loc[w].useKerberosCache /\ loc[u].useKerberosCache
            => Readlink(krb5Dir, CanonicalPath(w))
                  \in {VolumeCachePath(req[w].volumeID),
                       VolumeCachePath(req[u].volumeID)})


\* the stage or unstage request r lacks a field its handler requires
LacksField(r) ==
    \/ r.volumeID = <<>>
    \/ r.path = ""
    \/ r.op = "stage" /\ (~r.capability \/ ContextSources(r.context) = {<<>>})

\* worker w's stage or unstage call comes back in this step with code
RefusedWith(w, code) ==
    /\ pc[w] # "done"
    /\ pc'[w] = "done"
    /\ req'[w].op \in {"stage", "unstage"}
    /\ res'[w].code = code

\* C18: a stage or unstage call that returns InvalidArgument or Aborted
\* returns in its first step, having made no mount or unmount call, changed
\* no directory, cache file or symlink and left the lock table as it found
\* it; the lock a refused call asked for is still held by its winner; a
\* call that lacks a field returns InvalidArgument whether or not its
\* volume's lock is held
C18_RefusedCallsChangeNothing ==
    [][\A w \in Workers :
        /\ RefusedWith(w, "InvalidArgument") \/ RefusedWith(w, "Aborted") =>
            /\ pc[w] = "idle"
            /\ fs' = fs
            /\ krb5Dir' = krb5Dir
            /\ cacheDirExists' = cacheDirExists
            /\ volumeLocks' = volumeLocks
            /\ loc'[w].mountCalls = 0
            /\ loc'[w].unmountCalls = 0
            /\ ~loc'[w].probe.ran
        /\ RefusedWith(w, "Aborted") =>
            /\ ~LacksField(req'[w])
            /\ Holders(req'[w].volumeID) # {}
            /\ req'[w].volumeID \in volumeLocks'
        /\ TakesLockedRequest(w) /\ LacksField(req'[w]) =>
            RefusedWith(w, "InvalidArgument")]_vars

\* a call was refused with Aborted while the other worker, in flight on the
\* same volume, still holds the lock
C18_Witness ==
    \E w \in Workers, u \in Workers :
        /\ u # w
        /\ pc[w] = "done"
        /\ req[w].op \in {"stage", "unstage"}
        /\ res[w].code = "Aborted"
        /\ u \in Holders(req[w].volumeID)
        /\ req[w].volumeID \in volumeLocks

\* the values request r offers as the ticket of the uid its flags name
TicketValues(r) ==
    SecretValues(r.secrets, getKrb5CcacheName(getCredUID(r.mountFlags).val))

\* a Kerberos request that ensureKerberosCache must refuse: the cache
\* directory is missing, or no flag gives a uid, or every value of the
\* ticket secret is empty or not base64
KerberosUnservable(r) ==
    /\ hasKerberosMountOption(r.mountFlags)
    /\ \/ ~cacheDirExists
       \/ ~getCredUID(r.mountFlags).ok
       \/ \A raw \in TicketValues(r) : raw = <<>> \/ ~B64Decode(raw).ok

\* C19: without a sec=krb5* flag ensureKerberosCache answers (false, nil)
\* and leaves the cache directory alone; with one, when the cache directory
\* is missing, no cruid= flag is present or the ticket secret is missing or
\* not base64, it fails before any cache file or symlink changes and the
\* stage call returns Internal with no probe and no mount call
C19_EnsureRefusesBeforeWriting ==
    [][\A w \in Workers :
        pc[w] = "ensureKrb" /\ pc'[w] # "ensureKrb" =>
            /\ ~hasKerberosMountOption(req[w].mountFlags) =>
                /\ pc'[w] = "probe"
                /\ ~loc'[w].useKerberosCache
                /\ krb5Dir' = krb5Dir
                /\ res'[w] = res[w]
            /\ KerberosUnservable(req[w]) =>
                /\ pc'[w] = "done"
                /\ res'[w].code = "Internal"
                /\ krb5Dir' = krb5Dir
                /\ fs' = fs
                /\ ~loc'[w].probe.ran
                /\ loc'[w].mountCalls = 0]_vars

\* a Kerberos stage call whose ticket secret is not base64 was refused with
\* Internal on a node that has the cache directory, which is still empty
C19_Witness ==
    \E w \in Workers :
        /\ pc[w] = "done"
        /\ req[w].op = "stage"
        /\ cacheDirExists
        /\ getCredUID(req[w].mountFlags).ok
        /\ TicketValues(req[w]) # {}
        /\ KerberosUnservable(req[w])
        /\ res[w].code = "Internal"
        /\ DOMAIN krb5Dir = {}

\* worker w's handler gets ensureMountPoint's answer in this step
ProbeReturns(w) == ~loc[w].probe.ran /\ loc'[w].probe.ran

\* C20: when ensureMountPoint returns an error, the stage or publish call
\* returns Internal at once and has made no mount call; when it returns
\* "not mounted" with no error, the target directory exists.  The second
\* half fails where makeDir takes MkdirAll's EEXIST for success.
C20_ProbeErrorMeansNoMount ==
    [][\A w \in Workers :
        ProbeReturns(w) =>
            /\ loc'[w].probe.err # "nil" =>
                /\ pc'[w] = "done"
                /\ res'[w].code = "Internal"
                /\ loc'[w].mountCalls = 0
            /\ loc'[w].probe.err = "nil" /\ ~loc'[w].probe.mnt =>
                fs'[req[w].path].exists]_vars
    /\ [](\A w \in Workers :
            loc[w].probe.ran /\ loc[w].probe.err # "nil" => loc[w].mountCalls = 0)

\* a stage call and a publish call have both returned Internal because
\* ensureMountPoint failed, the one listing the mount table, the other
\* creating the directory, neither having called Mount
C20_Witness ==
    \E w \in Workers, u \in Workers :
        /\ pc[w] = "done" /\ pc[u] = "done"
        /\ req[w].op = "stage" /\ req[u].op = "publish"
        /\ loc[w].probe.err = "list" /\ loc[u].probe.err = "mkdir"
        /\ res[w].code = "Internal" /\ res[u].code = "Internal"
        /\ loc[w].mountCalls = 0 /\ loc[u].mountCalls = 0

\* worker w's unstage call is inside deleteKerberosCache
InDeleteKerberosCache(w) ==
    /\ req[w].op = "unstage"
    /\ pc[w] \in {"delCheck", "delScan", "delRemove", "delFile"}

\* worker w's unstage call runs its unmount-and-cleanup in this step
CleansUp(w) == req[w].op = "unstage" /\ pc[w] = "cleanup" /\ pc'[w] # "cleanup"

\* C21: an unstage call is inside deleteKerberosCache only once the staging
\* path is unmounted and removed; the cleanup step itself changes nothing in
\* the cache directory, and when it fails the call returns Internal in
\* that step, having removed no cache file and no symlink
C21_CacheDeletedOnlyAfterCleanup ==
    [][\A w \in Workers :
        /\ TakesLockedRequest(w) /\ req'[w].op = "unstage" => krb5Dir' = krb5Dir
        /\ CleansUp(w) =>
            /\ krb5Dir' = krb5Dir
            /\ loc'[w].removed = <<>>
            /\ IF fs'[req[w].path] = NoMount
               THEN pc'[w] = "delCheck" /\ res'[w] = NoResult
               ELSE pc'[w] = "done" /\ res'[w].code = "Internal"]_vars
    /\ [](\A w \in Workers :
            /\ InDeleteKerberosCache(w) => fs[req[w].path] = NoMount
            /\ req[w].op = "unstage" /\ loc[w].removed # <<>> =>
                fs[req[w].path] = NoMount \/ pc[w] = "done")

\* an unstage call has returned Internal because the cleanup of its staging
\* path failed, and the volume's cache file and the canonical symlink to it
\* are both still in the cache directory
C21_Witness ==
    \E w \in Workers :
        /\ pc[w] = "done"
        /\ req[w].op = "unstage"
        /\ res[w] = Result("Internal", "unmount")
        /\ loc[w].removed = <<>>
        /\ IsMounted(fs[req[w].path])
        /\ volumeKerberosCacheName(req[w].volumeID) \in DOMAIN krb5Dir
        /\ \E n \in DOMAIN krb5Dir :
            /\ krb5Dir[n].kind = "symlink"
            /\ krb5Dir[n].target = VolumeCachePath(req[w].volumeID)

\* the cache directory holds v's cache file and, under the canonical name of
\* path link, a symlink to it
CacheKept(dir, v, link) ==
    /\ volumeKerberosCacheName(v) \in DOMAIN dir
    /\ Readlink(dir, link) = VolumeCachePath(v)

\* worker w's Kerberos stage call has failed after ensureKerberosCache
\* succeeded: ensureMountPoint returned an error or the Mount call failed
FailedAfterEnsure(w) ==
    /\ pc[w] = "done"
    /\ req[w].op = "stage"
    /\ loc[w].useKerberosCache
    /\ res[w] \in {Result("Internal", "probe"), Result("Internal", "mount")}

\* worker w's Kerberos stage call fails in this step after
\* ensureKerberosCache succeeded, without rolling anything back
FailsKeepingAll(w) ==
    pc[w] \in {"probe", "mounting"} /\ FailedAfterEnsure(w)' =>
        /\ krb5Dir' = krb5Dir
        /\ CacheKept(krb5Dir', req[w].volumeID, CanonicalPath(w))
        /\ fs'[req[w].path].exists

\* this step takes away the cache file, the canonical symlink to it or the
\* staging directory that the failed stage call of worker u left
LosesWhatStageLeft(u) ==
    /\ FailedAfterEnsure(u)
    /\ \/ /\ CacheKept(krb5Dir, req[u].volumeID, CanonicalPath(u))
          /\ ~CacheKept(krb5Dir', req[u].volumeID, CanonicalPath(u))
       \/ fs[req[u].path].exists /\ ~fs'[req[u].path].exists

\* worker w's unstage call for the volume of worker u takes a step
UnstageStepFor(w, u) ==
    /\ req[w].op = "unstage"
    /\ req[w].volumeID = req[u].volumeID
    /\ pc[w] \in {"cleanup", "delRemove", "delFile"}
    /\ pc'[w] # pc[w] \/ loc'[w] # loc[w]

\* worker w's Kerberos stage call, of the same cruid as worker u's, removes
\* the canonical name in order to link it anew
RelinkStepFor(w, u) ==
    /\ req[w].op = "stage"
    /\ pc[w] = "krbRemove" /\ pc'[w] = "krbSymlink"
    /\ loc[w].krb5CacheFileName = CanonicalPath(u)

=============================================================================
